---- MODULE Spec2Model ----
(***************************************************************************)
(* Model of the staged build and dispatch pipeline of core/build.py        *)
(* (class Builder).  The project root is modelled as a small file system:  *)
(* the source directories, the staging directory _tmp_<timestamp> of the   *)
(* current run, the "next" directory _website_new and the live directory   *)
(* _website.  One action per statement of Builder.build and of             *)
(* Builder._dispatch_build; loops over os.listdir take one entry per step, *)
(* in any order.                                                           *)
(***************************************************************************)
EXTENDS Integers, Sequences, FiniteSets, TLC

\* ---------------------------------------------------------------- bounds
MaxRuns == 2      \* number of build runs (processes) in one behaviour
MaxPages == 2     \* number of files in _pages/
MaxKeyLen == 3    \* number of characters of the argument of get_config_value

\* ------------------------------------------------------- file-system trees
\* A directory tree: exists, the names of its sub-directories, its files.
\* A file is [dir, name, data]; dir = "" is the root of the tree; a name is
\* the sequence of the '.'-separated segments of the file name.
NoDir == [exists |-> FALSE, dirs |-> {}, files |-> {}]

EmptyDir == [exists |-> TRUE, dirs |-> {}, files |-> {}]

HasFile(t, d, n) == \E f \in t.files : f.dir = d /\ f.name = n

FileData(t, d, n) == (CHOOSE f \in t.files : f.dir = d /\ f.name = n).data

WriteFile(t, d, n, x) ==
    [t EXCEPT !.files = {f \in @ : ~(f.dir = d /\ f.name = n)}
                          \cup {[dir |-> d, name |-> n, data |-> x]}]

\* Builder._copy_to_tmp: create the sub-folder when it is missing, then
\* shutil.copy the file into it (overwriting a file of the same name).
CopyToTmp(t, n, x, sub) ==
    WriteFile(IF sub # "" /\ sub \notin t.dirs
                 THEN [t EXCEPT !.dirs = @ \cup {sub}] ELSE t,
              sub, n, x)

\* core.helpers.create_empty_directory on a sub-directory of a tree: the
\* directory exists afterwards and holds nothing.
CreateEmptySubDir(t, d) ==
    [t EXCEPT !.dirs = @ \cup {d}, !.files = {f \in @ : f.dir # d}]

\* core.helpers.create_empty_directory on a directory of the project root.
CreateEmptyDirectory(t) == EmptyDir

\* (variant: a copy of the files of the top directory only)
CopyTreeFlat(s, d) ==
    [exists |-> TRUE,
     dirs   |-> d.dirs,
     files  |-> {f \in d.files : ~(f.dir = "" /\ HasFile(s, f.dir, f.name))}
                   \cup {f \in s.files : f.dir = ""}]

\* distutils.dir_util.copy_tree(src, dst): creates dst and every directory
\* of src, copies every file of src over the file of the same path in dst,
\* and leaves the other files of dst alone.
CopyTree(s, d) ==
    [exists |-> TRUE,
     dirs   |-> d.dirs \cup s.dirs,
     files  |-> {f \in d.files : ~HasFile(s, f.dir, f.name)} \cup s.files]

\* shutil.rmtree(path)
RmTree(t) == NoDir

\* ---------------------------------------------------------------- sources
NoKey == "<none>"

\* Data of a file: what it is, which source file its content comes from,
\* the template named by its front matter (pages) or used to render it
\* (html), the revision of the sources, and the image mapping rendered in.
Data(k, b, t, r, i) == [kind |-> k, body |-> b, template |-> t, rev |-> r, imgs |-> i]

\* The files that may be in _pages/, with the template key of their front
\* matter ("page" is an existing template, "missing" is not, NoKey: the
\* front matter has no template key).
PageFiles ==
    { [name |-> <<"about", "md">>,       template |-> "page"],
      [name |-> <<"bad", "markdown">>,   template |-> "missing"],
      [name |-> <<"nokey", "md">>,       template |-> NoKey],
      [name |-> <<"about", "md", "md">>, template |-> "page"] }

\* The files of _templates/.
TemplateFiles == { <<"page", "html">> }

\* The files that may be in _static/images/; gone.png is a dangling
\* symbolic link: os.listdir lists it, shutil.copy raises FileNotFoundError.
ImageFiles == { <<"logo", "png">>, <<"gone", "png">> }

Dangling(i) == i = <<"gone", "png">>

\* The elements of a sequence.
Range(q) == {q[k] : k \in DOMAIN q}

\* The listings of a directory holding at most n of the files of S: os.listdir
\* returns the entries in an arbitrary order, the same one as long as the
\* directory is not modified.
Listings(S, n) ==
    {q \in UNION {[1..k -> S] : k \in 0..n} : \A i, j \in DOMAIN q : q[i] = q[j] => i = j}

\* _static/images/: absent, or present with its listing.
ImageDirs ==
    { [present |-> FALSE, files |-> <<>>],
      [present |-> TRUE,  files |-> <<<<"logo", "png">>>>],
      [present |-> TRUE,  files |-> <<<<"logo", "png">>, <<"gone", "png">>>>],
      [present |-> TRUE,  files |-> <<<<"gone", "png">>, <<"logo", "png">>>>] }

\* _static/styles/ holds plain a.css or not, and a.scss or not;
\* static/styles/ (the directory line 100 compiles) is absent or holds
\* a.scss; strict: the installed sass.compile raises on a missing directory
\* (os.walk with an error handler) instead of compiling nothing.
StyleDirs ==
    { [css |-> FALSE, scss |-> FALSE, static |-> "absent", strict |-> TRUE],
      [css |-> TRUE,  scss |-> FALSE, static |-> "scss",   strict |-> TRUE],
      [css |-> FALSE, scss |-> TRUE,  static |-> "scss",   strict |-> TRUE],
      [css |-> TRUE,  scss |-> TRUE,  static |-> "scss",   strict |-> TRUE],
      [css |-> TRUE,  scss |-> TRUE,  static |-> "absent", strict |-> TRUE],
      [css |-> TRUE,  scss |-> TRUE,  static |-> "absent", strict |-> FALSE] }

Sources ==
    { [pages |-> P, images |-> I, styles |-> S] :
        P \in Listings(PageFiles, MaxPages), I \in ImageDirs, S \in StyleDirs }

Modes == {"production", "development"}

\* ------------------------------------------------------------------ state
VARIABLES
    src,          \* the source directories of the project
    rev,          \* revision of the sources (bumped by an edit between runs)
    runs,         \* number of Builder instances constructed so far
    clock,        \* int(time.time())
    mode,         \* Builder.mode
    pc,           \* position of the current run in build / _dispatch_build
    failedAt,     \* position at which the current run stopped, or "none"
    cause,        \* what stopped it: an exception of the code, or "abort"
    tmpName,      \* the timestamp in Builder.tmp_dir
    stagingDirs,  \* timestamps of the _tmp_<timestamp> directories on disk
    tmp,          \* content of the staging directory Builder.tmp_dir
    images,       \* Builder.images (the keys of the mapping)
    imgTodo,      \* images the loop of line 61 has still to copy
    pagesTodo,    \* entries the loop of line 143 has still to visit
    website,      \* the live directory _website
    websiteNew,   \* the "next" directory _website_new
    written,      \* history: pages whose .html output was written in this run
    liveBefore,   \* history: _website when the current run started
    firstOk,      \* history: some production build has succeeded
    fresh,        \* history: the latest run was a successful production
                  \* build and the sources have not been edited since
    again,        \* history: fresh, when the current run started
    config,       \* get_config_value: the content of .pavoconfig
    key,          \* get_config_value: the argument keys, a string
    segs,         \* get_config_value: the segments reduce has still to take
    acc,          \* get_config_value: the accumulator d of reduce
    value,        \* get_config_value: the value returned
    cpc           \* get_config_value: "off", "reduce" or "done"

vars == <<src, rev, runs, clock, mode, pc, failedAt, cause, tmpName, stagingDirs,
          tmp, images, imgTodo, pagesTodo, website, websiteNew, written,
          liveBefore, firstOk, fresh, again, config, key, segs, acc, value, cpc>>

cfgVars == <<config, key, segs, acc, value, cpc>>

buildVars == <<src, rev, runs, clock, mode, pc, failedAt, cause, tmpName,
               stagingDirs, tmp, images, imgTodo, pagesTodo, website, websiteNew,
               written, liveBefore, firstOk, fresh, again>>

srcVars == <<src, rev>>

runVars == <<runs, clock, mode, tmpName, liveBefore, again>>

Running == {"templates", "images", "images_copy", "pages", "posts", "styles",
            "clean", "mode", "create_next", "ensure_live", "copy_next",
            "remove_live", "rename", "recopy", "remove_tmp"}

DispatchSteps == {"create_next", "ensure_live", "copy_next", "remove_live",
                  "rename", "recopy", "remove_tmp"}

\* ------------------------------------------------------ configuration file
\* A YAML value: a mapping (keys are strings, written as sequences of
\* characters), a string, or null.
StrValue(x) == [kind |-> "str", str |-> x, map |-> <<>>]

NullValue == [kind |-> "null", str |-> "", map |-> <<>>]

MapValue(m) == [kind |-> "map", str |-> "", map |-> m]

\* The empty value '' of line 22.
EmptyValue == StrValue("")

\* The mappings with keys among K and values among V.
Mappings(K, V) == UNION {[D -> V] : D \in SUBSET K}

ConfigScalars == {StrValue("x"), EmptyValue, NullValue}

\* The contents of .pavoconfig as yaml.load returns them: a scalar or null
\* (an empty file), or a mapping nested up to two levels, one of whose keys
\* may itself hold a dot.
ConfigInner ==
    ConfigScalars \cup
    {MapValue(m) : m \in Mappings({<<"a">>, <<"b">>}, ConfigScalars)}

Configs ==
    ConfigScalars \cup
    {MapValue(m) : m \in Mappings({<<"a">>, <<"a", ".", "b">>}, ConfigInner)}

\* The arguments of get_config_value: strings of at most MaxKeyLen characters.
KeyStrings == UNION {[1..n -> {"a", "b", "."}] : n \in 0..MaxKeyLen}

\* keys.split("."): the segments between the dots; the last argument is the
\* segment read so far.  "".split(".") is [''].
RECURSIVE SplitDots(_, _)
SplitDots(k, cur) ==
    IF k = <<>> THEN <<cur>>
    ELSE IF Head(k) = "." THEN <<cur>> \o SplitDots(Tail(k), <<>>)
    ELSE SplitDots(Tail(k), Append(cur, Head(k)))

Split(k) == SplitDots(k, <<>>)

\* (variant: d.get(key) without the default)
LookupNoDefault(d, k) ==
    IF d.kind = "map"
       THEN IF k \in DOMAIN d.map THEN d.map[k] ELSE NullValue
       ELSE EmptyValue

\* The lambda of line 22: d.get(key, '') if isinstance(d, dict) else ''
Lookup(d, k) ==
    IF d.kind = "map"
       THEN IF k \in DOMAIN d.map THEN d.map[k] ELSE EmptyValue
       ELSE EmptyValue

\* get_config_value is not running.
ConfigOff ==
    /\ config = NullValue
    /\ key = <<>>
    /\ segs = <<>>
    /\ acc = NullValue
    /\ value = NullValue
    /\ cpc = "off"

\* Lines 19-22: the file is loaded and reduce starts from it.
ConfigStart ==
    /\ config \in Configs
    /\ key \in KeyStrings
    /\ segs = Split(key)
    /\ acc = config
    /\ value = NullValue
    /\ cpc = "reduce"

\* One application of the lambda by reduce.
ReduceStep ==
    /\ cpc = "reduce"
    /\ segs # <<>>
    /\ acc' = Lookup(acc, Head(segs))
    /\ segs' = Tail(segs)
    /\ UNCHANGED <<config, key, value, cpc, buildVars>>

\* reduce has taken every segment: line 22 returns the accumulator.
ReduceReturn ==
    /\ cpc = "reduce"
    /\ segs = <<>>
    /\ value' = acc
    /\ cpc' = "done"
    /\ UNCHANGED <<config, key, segs, acc, buildVars>>

\* ------------------------------------------------------------ initial state
\* No build has run yet.
BuildStart ==
    /\ rev = 0
    /\ runs = 0
    /\ clock = 0
    /\ mode = "production"
    /\ pc = "idle"
    /\ failedAt = "none"
    /\ cause = "none"
    /\ tmpName = 0
    /\ stagingDirs = {}
    /\ tmp = NoDir
    /\ images = {}
    /\ imgTodo = <<>>
    /\ pagesTodo = <<>>
    /\ website = NoDir
    /\ websiteNew = NoDir
    /\ written = {}
    /\ liveBefore = NoDir
    /\ firstOk = FALSE
    /\ fresh = FALSE
    /\ again = FALSE

\* The state before the first run: the project has never been built.
Init ==
    /\ src \in Sources
    /\ BuildStart
    /\ ConfigOff

\* The run stops at position p with exception (or abort) c; nothing is
\* cleaned up: main() lets the exception propagate.
Stop(p, c) ==
    /\ pc' = "failed"
    /\ failedAt' = p
    /\ cause' = c
    /\ fresh' = FALSE

Goto(p) ==
    /\ pc' = p
    /\ UNCHANGED <<failedAt, cause, fresh>>

\* ------------------------------------------------------------ environment
\* The author edits the content between two runs, and may delete the page
\* file that _pages/ lists first.
EditSources ==
    /\ pc \in {"done", "failed"}
    /\ rev = 0
    /\ runs < MaxRuns
    /\ rev' = 1
    /\ src' \in {src} \cup (IF src.pages = <<>> THEN {}
                              ELSE {[src EXCEPT !.pages = Tail(@)]})
    /\ fresh' = FALSE
    /\ UNCHANGED <<runs, clock, mode, pc, failedAt, cause, tmpName,
                   stagingDirs, tmp, images, imgTodo, pagesTodo, website,
                   websiteNew, written, liveBefore, firstOk, again, cfgVars>>

\* ------------------------------------------------------- Builder.__init__
\* os.listdir('_pages/') of line 143.
ListPages == src.pages

\* main(): Builder() then builder.build().  __init__ names the staging
\* directory after the current second and creates it with os.mkdir, which
\* raises FileExistsError when a directory of that name is still there.
NewRun ==
    /\ pc \in {"idle", "done", "failed"}
    /\ runs < MaxRuns
    /\ runs' = runs + 1
    /\ \E m \in Modes, t \in IF runs = 0 THEN {clock} ELSE {clock, clock + 1} :
        /\ mode' = m
        /\ clock' = t
        /\ tmpName' = t
        /\ IF t \in stagingDirs
              THEN /\ Stop("init", "FileExistsError")
                   /\ tmp' = NoDir
                   /\ UNCHANGED stagingDirs
              ELSE /\ pc' = "templates"
                   /\ failedAt' = "none"
                   /\ cause' = "none"
                   /\ fresh' = FALSE
                   /\ tmp' = EmptyDir
                   /\ stagingDirs' = stagingDirs \cup {t}
    /\ images' = {}
    /\ imgTodo' = <<>>
    /\ pagesTodo' = ListPages
    /\ written' = {}
    /\ liveBefore' = website
    /\ again' = fresh
    /\ UNCHANGED <<src, rev, website, websiteNew, firstOk, cfgVars>>

\* ---------------------------------------------------------- Builder.build
\* (variant: build does not call _load_templates before the pages)
LoadedNothing(t, r) == t

\* _load_templates: copy every file of _templates/ into <tmp>/_templates.
LoadedTemplates(t, r) ==
    [t EXCEPT !.dirs = IF TemplateFiles = {} THEN @ ELSE @ \cup {"_templates"},
              !.files = {f \in @ : f.dir # "_templates"} \cup
                  { [dir |-> "_templates", name |-> n,
                     data |-> Data("template", n, "", r, {})] : n \in TemplateFiles }]

LoadTemplates ==
    /\ pc = "templates"
    /\ tmp' = LoadedTemplates(tmp, rev)
    /\ Goto("images")
    /\ UNCHANGED <<srcVars, runVars, cfgVars, stagingDirs, images, imgTodo, pagesTodo,
                   website, websiteNew, written, firstOk>>

\* (variant: the FileNotFoundError of line 60 is not handled)
LoadImagesUncaught ==
    /\ pc = "images"
    /\ IF src.images.present
          THEN /\ images' = Range(src.images.files)
               /\ imgTodo' = src.images.files
               /\ Goto(IF src.images.files = <<>> THEN "pages" ELSE "images_copy")
          ELSE /\ Stop("images", "FileNotFoundError")
               /\ UNCHANGED <<images, imgTodo>>
    /\ UNCHANGED <<srcVars, runVars, cfgVars, stagingDirs, tmp, pagesTodo,
                   website, websiteNew, written, firstOk>>

\* Lines 58-64: load_files('_static/images/') raises FileNotFoundError when
\* the directory is absent; the handler of line 63 logs it and build goes on.
LoadImages ==
    /\ pc = "images"
    /\ IF src.images.present
          THEN /\ images' = Range(src.images.files)
               /\ imgTodo' = src.images.files
               /\ Goto(IF src.images.files = <<>> THEN "pages" ELSE "images_copy")
          ELSE /\ Goto("pages")
               /\ UNCHANGED <<images, imgTodo>>
    /\ UNCHANGED <<srcVars, runVars, cfgVars, stagingDirs, tmp, pagesTodo,
                   website, websiteNew, written, firstOk>>

\* Lines 61-62: one iteration of the loop over the mapping.  A
\* FileNotFoundError raised by shutil.copy lands in the same handler of
\* line 63, which ends the loop.
CopyImage ==
    /\ pc = "images_copy"
    /\ imgTodo # <<>>
    /\ LET i == Head(imgTodo)
       IN  IF Dangling(i)
              THEN /\ Goto("pages")
                   /\ UNCHANGED <<tmp, imgTodo>>
              ELSE /\ tmp' = CopyToTmp(tmp, i, Data("image", i, "", rev, {}), "images")
                   /\ imgTodo' = Tail(imgTodo)
                   /\ Goto(IF Tail(imgTodo) = <<>> THEN "pages" ELSE "images_copy")
    /\ UNCHANGED <<srcVars, runVars, cfgVars, stagingDirs, images, pagesTodo,
                   website, websiteNew, written, firstOk>>

\* Line 144: page.endswith('.md') or page.endswith('.markdown')
IsMarkdown(n) == Len(n) >= 2 /\ n[Len(n)] \in {"md", "markdown"}

\* Line 146: file = (page.split('.')[0], page.split('.')[1]); line 115 opens
\* <tmp>/<path>.<extension>.
MarkdownSource(n) == <<n[1], n[2]>>

\* Line 132: the output is written to <tmp>/<path>.html.
OutputName(n) == <<n[1], "html">>

\* frontmatter.loads of a staged file: the template key of its front matter.
\* Only a raw page carries front matter.
TemplateKey(d) == IF d.kind = "raw" THEN d.template ELSE NoKey

\* jinja2 FileSystemLoader rooted at <tmp>/_templates: get_template(name.html)
TemplateFound(t, k) == HasFile(t, "_templates", <<k, "html">>)

\* How _build_markdown ends for the page file n, on the staging tree t that
\* already holds the copy of n: the exception that leaves it, the
\* TemplateNotFound its handler swallows, or "ok".
MarkdownOutcome(t, n) ==
    IF ~HasFile(t, "", MarkdownSource(n)) THEN "FileNotFoundError"
    ELSE IF TemplateKey(FileData(t, "", MarkdownSource(n))) = NoKey THEN "KeyError"
    ELSE IF ~TemplateFound(t, TemplateKey(FileData(t, "", MarkdownSource(n))))
         THEN "TemplateNotFound"
    ELSE "ok"

\* Lines 128-133: render the template with the content read and the image
\* mapping, and write the result.
Rendered(t, n, imgs) ==
    WriteFile(t, "", OutputName(n),
              Data("html", FileData(t, "", MarkdownSource(n)).body,
                   TemplateKey(FileData(t, "", MarkdownSource(n))),
                   FileData(t, "", MarkdownSource(n)).rev, imgs))

\* Line 145: self._copy_to_tmp(f'_pages/{page}')
StagedPage(t, p, r) == CopyToTmp(t, p.name, Data("raw", p.name, p.template, r, {}), "")

\* One iteration of the loop of _build_pages (lines 143-147), _build_markdown
\* included.
BuildPage ==
    /\ pc = "pages"
    /\ pagesTodo # <<>>
    /\ LET p == Head(pagesTodo)
       IN
        /\ pagesTodo' = Tail(pagesTodo)
        /\ IF ~IsMarkdown(p.name)
              THEN /\ Goto("pages")
                   /\ UNCHANGED <<tmp, written>>
              ELSE LET t1 == StagedPage(tmp, p, rev)
                       o  == MarkdownOutcome(t1, p.name)
                   IN  IF o = "ok"
                          THEN /\ tmp' = Rendered(t1, p.name, images)
                               /\ written' = written \cup {p.name}
                               /\ Goto("pages")
                          ELSE IF o = "TemplateNotFound"
                          THEN /\ tmp' = t1
                               /\ Goto("pages")
                               /\ UNCHANGED written
                          ELSE /\ tmp' = t1
                               /\ Stop("pages", o)
                               /\ UNCHANGED written
    /\ UNCHANGED <<srcVars, runVars, cfgVars, stagingDirs, images, imgTodo,
                   website, websiteNew, firstOk>>

\* The loop of line 143 has visited every entry.
PagesDone ==
    /\ pc = "pages"
    /\ pagesTodo = <<>>
    /\ Goto("posts")
    /\ UNCHANGED <<srcVars, runVars, cfgVars, stagingDirs, tmp, images, imgTodo, pagesTodo,
                   website, websiteNew, written, firstOk>>

\* _build_posts: create_empty_directory(<tmp>/posts).
BuildPosts ==
    /\ pc = "posts"
    /\ tmp' = CreateEmptySubDir(tmp, "posts")
    /\ Goto("styles")
    /\ UNCHANGED <<srcVars, runVars, cfgVars, stagingDirs, images, imgTodo, pagesTodo,
                   website, websiteNew, written, firstOk>>

\* Line 99: glob('_static/styles/*.sass') or glob('_static/styles/*.scss')
HasSassSources(s) == s.scss

\* Line 100: sass.compile(dirname=('static/styles/', <tmp>/styles/)) writes
\* a.css for a.scss of static/styles/.
Compiled(t, s, r) ==
    IF HasSassSources(s) /\ s.static = "scss"
       THEN WriteFile(t, "styles", <<"a", "css">>,
                      Data("compiled", <<"a", "scss">>, "", r, {}))
       ELSE t

\* Lines 101-103: copy every plain .css of _static/styles/ into <tmp>/styles.
PlainCopied(t, s, r) ==
    IF s.css
       THEN CopyToTmp(t, <<"a", "css">>, Data("plain", <<"a", "css">>, "", r, {}), "styles")
       ELSE t

\* (variant: the plain files are copied before the compilation)
StylesSwapped(t, s, r) == Compiled(PlainCopied(CreateEmptySubDir(t, "styles"), s, r), s, r)

\* _build_styles as a whole (lines 98-103).
StylesBuilt(t, s, r) == PlainCopied(Compiled(CreateEmptySubDir(t, "styles"), s, r), s, r)

\* Line 100 raises: there are sources to compile, the directory named on
\* line 100 does not exist and the library reports it.
CompileRaises(s) == HasSassSources(s) /\ s.static = "absent" /\ s.strict

\* _build_styles.
BuildStyles ==
    /\ pc = "styles"
    /\ IF CompileRaises(src.styles)
          THEN /\ tmp' = CreateEmptySubDir(tmp, "styles")
               /\ Stop("styles", "FileNotFoundError")
          ELSE /\ tmp' = StylesBuilt(tmp, src.styles, rev)
               /\ Goto("clean")
    /\ UNCHANGED <<srcVars, runVars, cfgVars, stagingDirs, images, imgTodo, pagesTodo,
                   website, websiteNew, written, firstOk>>

\* (variant: no entry of <tmp> is a directory of the project root)
IsDirInRootNever(d) == FALSE

\* os.path.isdir(file) of line 164 is evaluated relative to the project
\* root, not to <tmp>: it holds for the names of the directories of the root.
IsDirInRoot(d) == d \in {"_templates", "_pages", "_static"}

\* file.startswith('_'), for the directories a staging tree can hold
\* (_templates, images, posts, styles).
StartsWithUnderscore(d) == d = "_templates"

\* Line 164-165: the entry is removed as a directory.
RemovedDir(d) == IsDirInRoot(d) /\ StartsWithUnderscore(d)

\* _clean_tmp (lines 163-167) over every entry of os.listdir(<tmp>):
\* shutil.rmtree of the directories of line 164, os.remove of the files
\* ending in .md or .markdown.
Cleaned(t) ==
    [t EXCEPT !.dirs = {d \in @ : ~RemovedDir(d)},
              !.files = {f \in @ :
                           /\ ~(f.dir # "" /\ RemovedDir(f.dir))
                           /\ ~(f.dir = "" /\ IsMarkdown(f.name))}]

CleanTmp ==
    /\ pc = "clean"
    /\ tmp' = Cleaned(tmp)
    /\ Goto("mode")
    /\ UNCHANGED <<srcVars, runVars, cfgVars, stagingDirs, images, imgTodo, pagesTodo,
                   website, websiteNew, written, firstOk>>

\* (variant: the test of line 71 is left out)
DispatchesAlways(m) == TRUE

\* Line 71: if not self.mode == 'development'
Dispatches(m) == m # "development"

\* Lines 71-72; build returns here in development mode.
CheckMode ==
    /\ pc = "mode"
    /\ IF Dispatches(mode)
          THEN Goto("create_next")
          ELSE /\ pc' = "done"
               /\ UNCHANGED <<failedAt, cause, fresh>>
    /\ UNCHANGED <<srcVars, runVars, cfgVars, stagingDirs, tmp, images, imgTodo, pagesTodo,
                   website, websiteNew, written, firstOk>>

\* ------------------------------------------------ Builder._dispatch_build
\* Line 175: create_empty_directory('_website_new')
DispatchCreateNext ==
    /\ pc = "create_next"
    /\ websiteNew' = CreateEmptyDirectory(websiteNew)
    /\ Goto("ensure_live")
    /\ UNCHANGED <<srcVars, runVars, cfgVars, stagingDirs, tmp, images, imgTodo, pagesTodo,
                   website, written, firstOk>>

\* (variant: the live directory is created empty, as on line 175)
EnsuredLiveEmptied(w) == EmptyDir

\* (variant: lines 178-179 are left out)
EnsuredLiveSkipped(w) == w

\* Lines 178-179: os.mkdir('_website') under Expects([FileExistsError]).
EnsuredLive(w) == IF w.exists THEN w ELSE EmptyDir

DispatchEnsureLive ==
    /\ pc = "ensure_live"
    /\ website' = EnsuredLive(website)
    /\ Goto("copy_next")
    /\ UNCHANGED <<srcVars, runVars, cfgVars, stagingDirs, tmp, images, imgTodo, pagesTodo,
                   websiteNew, written, firstOk>>

\* Line 181: copy_tree(self.tmp_dir, '_website_new')
DispatchCopyNext ==
    /\ pc = "copy_next"
    /\ websiteNew' = CopyTree(tmp, websiteNew)
    /\ Goto("remove_live")
    /\ UNCHANGED <<srcVars, runVars, cfgVars, stagingDirs, tmp, images, imgTodo, pagesTodo,
                   website, written, firstOk>>

\* (variant: line 182 removes self.tmp_dir instead of '_website')
DispatchRemoveLiveWrongDir ==
    /\ pc = "remove_live"
    /\ tmp' = RmTree(tmp)
    /\ stagingDirs' = stagingDirs \ {tmpName}
    /\ Goto("rename")
    /\ UNCHANGED <<srcVars, runVars, cfgVars, images, imgTodo, pagesTodo,
                   website, websiteNew, written, firstOk>>

\* (variant: line 182 is left out)
DispatchRemoveLiveSkipped ==
    /\ pc = "remove_live"
    /\ Goto("rename")
    /\ UNCHANGED <<srcVars, runVars, cfgVars, stagingDirs, tmp, images, imgTodo, pagesTodo,
                   website, websiteNew, written, firstOk>>

\* Line 182: shutil.rmtree('_website')
DispatchRemoveLive ==
    /\ pc = "remove_live"
    /\ website' = RmTree(website)
    /\ Goto("rename")
    /\ UNCHANGED <<srcVars, runVars, cfgVars, stagingDirs, tmp, images, imgTodo, pagesTodo,
                   websiteNew, written, firstOk>>

\* Line 183: os.rename('_website_new', '_website') replaces an absent or an
\* empty directory, and raises OSError on a directory that is not empty.
RenameFails(w) == w.exists /\ (w.dirs # {} \/ w.files # {})

DispatchRename ==
    /\ pc = "rename"
    /\ IF RenameFails(website)
          THEN /\ Stop("rename", "OSError")
               /\ UNCHANGED <<website, websiteNew>>
          ELSE /\ website' = websiteNew
               /\ websiteNew' = NoDir
               /\ Goto("recopy")
    /\ UNCHANGED <<srcVars, runVars, cfgVars, stagingDirs, tmp, images, imgTodo, pagesTodo,
                   written, firstOk>>

\* Line 184: copy_tree(self.tmp_dir, '_website')
DispatchRecopy ==
    /\ pc = "recopy"
    /\ website' = CopyTree(tmp, website)
    /\ Goto("remove_tmp")
    /\ UNCHANGED <<srcVars, runVars, cfgVars, stagingDirs, tmp, images, imgTodo, pagesTodo,
                   websiteNew, written, firstOk>>

\* (variant: the staging directory is left in the project root)
StagingKept(dirs, t) == dirs

\* The _tmp_<timestamp> directories of the project root after line 185.
StagingReleased(dirs, t) == dirs \ {t}

\* Line 185: shutil.rmtree(self.tmp_dir); _dispatch_build and build return.
DispatchRemoveTmp ==
    /\ pc = "remove_tmp"
    /\ tmp' = RmTree(tmp)
    /\ stagingDirs' = StagingReleased(stagingDirs, tmpName)
    /\ pc' = "done"
    /\ firstOk' = TRUE
    /\ fresh' = TRUE
    /\ UNCHANGED <<srcVars, runVars, cfgVars, failedAt, cause, images, imgTodo, pagesTodo,
                   website, websiteNew, written>>

\* --------------------------------------------------------------- failures
\* A tree whose directories exist and whose files are still to come (or are
\* already gone): what a copy or a removal leaves when it stops half-way.
PartialTree(t) == [t EXCEPT !.files = {}]

\* The run is stopped at its current position: the process is killed, or
\* the statement about to run fails with an I/O error (disk full, permission
\* denied).  A copy_tree or rmtree that fails may have done part of its work.
Crash ==
    /\ pc \in Running
    /\ Stop(pc, "abort")
    /\ websiteNew' \in IF pc = "copy_next"
                          THEN {websiteNew, CopyTree(PartialTree(tmp), websiteNew)}
                          ELSE {websiteNew}
    /\ website' \in IF pc = "remove_live"
                       THEN {website, PartialTree(website)}
                       ELSE {website}
    /\ UNCHANGED <<srcVars, runVars, cfgVars, stagingDirs, tmp, images, imgTodo, pagesTodo,
                   written, firstOk>>

\* main (lines 237-241) calls build() with no handler around it: an exception
\* raised at position p leaves main as it was raised, whatever p is.
Outcome(p, c) == [kind |-> "uncaught exception", exception |-> c]

\* ---------------------------------------------------------- specification
Next ==
    \/ NewRun
    \/ EditSources
    \/ LoadTemplates
    \/ LoadImages
    \/ CopyImage
    \/ BuildPage
    \/ PagesDone
    \/ BuildPosts
    \/ BuildStyles
    \/ CleanTmp
    \/ CheckMode
    \/ DispatchCreateNext
    \/ DispatchEnsureLive
    \/ DispatchCopyNext
    \/ DispatchRemoveLive
    \/ DispatchRename
    \/ DispatchRecopy
    \/ DispatchRemoveTmp
    \/ Crash

Spec == Init /\ [][Next]_vars

\* One call of get_config_value, on any configuration and any argument; no
\* build runs.
InitConfig ==
    /\ src = [pages |-> <<>>, images |-> [present |-> FALSE, files |-> <<>>],
              styles |-> [css |-> FALSE, scss |-> FALSE, static |-> "absent",
                          strict |-> TRUE]]
    /\ BuildStart
    /\ ConfigStart

NextConfig ==
    \/ ReduceStep
    \/ ReduceReturn

SpecConfig == InitConfig /\ [][NextConfig]_vars

TypeOK ==
    /\ src \in Sources
    /\ rev \in 0..1
    /\ runs \in 0..MaxRuns
    /\ clock \in 0..MaxRuns
    /\ mode \in Modes
    /\ pc \in Running \cup {"idle", "done", "failed"}
    /\ website.exists \in BOOLEAN
    /\ websiteNew.exists \in BOOLEAN

\* ------------------------------------------------------------- properties
\* The output path a page is expected at: its own file name with the last
\* segment (the extension) replaced by html.
HtmlPath(n) == SubSeq(n, 1, Len(n) - 1) \o <<"html">>

\* The template named by the key exists in _templates/.
Resolvable(k) == <<k, "html">> \in TemplateFiles

\* A page with a template key that names an existing template.
ValidPage(p) == IsMarkdown(p.name) /\ p.template # NoKey /\ Resolvable(p.template)

\* A page whose template key names a template that does not exist.
UnresolvablePage(p) == IsMarkdown(p.name) /\ p.template # NoKey /\ ~Resolvable(p.template)

\* The build the current run is about to publish: the staging tree.
NewBuild == [exists |-> TRUE, dirs |-> tmp.dirs, files |-> tmp.files]

\* The positions of a run before the live directory is removed (line 182).
BeforeSwap == {"init", "templates", "images", "images_copy", "pages", "posts",
               "styles", "clean", "mode", "create_next", "ensure_live", "copy_next"}

\* The page stage has ended: the loop of _build_pages is over, or a
\* file-not-found of the code itself has left it.
PageStageOver ==
    \/ pc = "posts"
    \/ pc = "failed" /\ failedAt = "pages" /\ cause = "FileNotFoundError"

\* C1: once a first production build has succeeded, in every state of a
\* later run (between any two steps, and where a run has stopped) _website
\* exists and holds exactly the previous build or exactly the new build.
C1_LiveAlwaysOldOrNew ==
    (firstOk /\ pc \in Running \cup {"failed"}) =>
        /\ website.exists
        /\ website = liveBefore \/ website = NewBuild

\* C2: in a run that found _website and that fails before the live directory
\* is removed, _website is at the point of failure what it was before the run.
C2_LiveUnchangedByEarlyFailure ==
    (pc = "failed" /\ failedAt \in BeforeSwap /\ liveBefore.exists) =>
        website = liveBefore

\* C2 witness: a run that found a published site stopped while copying into
\* the "next" directory.
C2_Witness ==
    /\ pc = "failed"
    /\ failedAt = "copy_next"
    /\ liveBefore.exists
    /\ liveBefore.files # {}
    /\ website = liveBefore

\* C3: after a production build that ran to completion, neither the staging
\* directory of the run nor _website_new is left in the project root.
C3_NoStagingNoNextAfterSuccess ==
    (pc = "done" /\ mode = "production") =>
        /\ tmpName \notin stagingDirs
        /\ ~tmp.exists
        /\ ~websiteNew.exists

\* C3 witness: a production build has completed and published files.
C3_Witness ==
    /\ pc = "done"
    /\ mode = "production"
    /\ website.exists
    /\ website.files # {}
    /\ tmpName \notin stagingDirs

\* C4: when the page stage has ended, for every page naming an unresolvable
\* template: no output was written for it, the build has not aborted, and
\* every other page with valid front matter and a resolvable template has
\* its .html output, whatever the order of processing was.
C4_UnresolvableTemplateIsolated ==
    PageStageOver =>
        \A p \in Range(src.pages) : UnresolvablePage(p) =>
            /\ p.name \notin written
            /\ ~HasFile(tmp, "", HtmlPath(p.name))
            /\ pc # "failed"
            /\ \A q \in Range(src.pages) \ {p} : ValidPage(q) =>
                   HasFile(tmp, "", HtmlPath(q.name))

\* C5: a page without a template key in its front matter is skipped; it
\* never aborts the build.
C5_MissingTemplateKeyIsolated ==
    \A p \in Range(src.pages) \ Range(pagesTodo) :
        (runs > 0 /\ IsMarkdown(p.name) /\ p.template = NoKey) =>
            /\ p.name \notin written
            /\ ~(pc = "failed" /\ failedAt = "pages" /\ cause = "KeyError")

\* C6: when the page stage has ended (by completion, or by a file-not-found
\* of the code itself), every .md or .markdown page with valid front matter
\* and a resolvable template has its output in staging at its own path with
\* the extension replaced by .html.
C6_EveryValidPageHasHtml ==
    PageStageOver =>
        \A q \in Range(src.pages) : ValidPage(q) => HasFile(tmp, "", HtmlPath(q.name))

\* The positions after the styles stage at which staging still exists.
AfterStyles == {"clean", "mode"} \cup DispatchSteps

\* C7: after the styles stage, when a.css exists both as compiled output and
\* as a plain source file, styles/a.css in staging is the plain file.
C7_PlainCssWins ==
    (pc \in AfterStyles /\ src.styles.css /\ HasSassSources(src.styles)
        /\ src.styles.static = "scss") =>
        /\ HasFile(tmp, "styles", <<"a", "css">>)
        /\ FileData(tmp, "styles", <<"a", "css">>).kind = "plain"

\* C7 witness: both files exist and the styles stage has run.
C7_Witness ==
    /\ pc = "clean"
    /\ src.styles.css
    /\ HasSassSources(src.styles)
    /\ src.styles.static = "scss"
    /\ FileData(tmp, "styles", <<"a", "css">>).kind = "plain"

\* C8: a production build that follows a successful production build of the
\* same sources is not stopped by any exception of the code, and when it
\* completes _website holds what it held after the first build.
C8_Idempotent ==
    (pc \in {"done", "failed"} /\ mode = "production" /\ again) =>
        /\ cause \in {"none", "abort"}
        /\ pc = "done" => website = liveBefore

\* C8 witness: the second of two successful production builds of unchanged
\* sources has completed.
C8_Witness ==
    /\ pc = "done"
    /\ mode = "production"
    /\ again
    /\ website.files # {}
    /\ website = liveBefore

\* C9: when _static/images is absent the image mapping stays empty, nothing
\* is copied into images/, no run is stopped by the image stage, and the
\* image stage hands over to the page stage with staging as it was.
C9_MissingImagesNotFatal ==
    /\ []((~src.images.present /\ runs > 0) =>
            /\ images = {}
            /\ ~(pc = "failed" /\ failedAt \in {"images", "images_copy"} /\ cause # "abort")
            /\ (tmp.exists => "images" \notin tmp.dirs))
    /\ [][(pc = "images" /\ ~src.images.present /\ cause' # "abort") =>
            (pc' = "pages" /\ images' = {} /\ tmp' = tmp)]_vars

\* C9 witness: a production build without _static/images has been published.
C9_Witness ==
    /\ ~src.images.present
    /\ pc = "done"
    /\ mode = "production"
    /\ images = {}
    /\ website.exists
    /\ "styles" \in website.dirs /\ "posts" \in website.dirs

\* C10: _website and _website_new change only in the steps of
\* _dispatch_build; dispatch is entered only from the end of build and only
\* in production mode; a development build leaves both directories as they
\* were.
C10_LiveTouchedOnlyByDispatch ==
    /\ [][ /\ (website' # website \/ websiteNew' # websiteNew) => pc \in DispatchSteps
           /\ (pc' \in DispatchSteps /\ pc \notin DispatchSteps) =>
                  (pc = "mode" /\ mode = "production")
         ]_vars
    /\ [](pc \in DispatchSteps => mode = "production")
    /\ []((mode = "development" /\ runs > 0) => website = liveBefore)

\* C10 witness: a development build of a published project has completed.
C10_Witness ==
    /\ pc = "done"
    /\ mode = "development"
    /\ liveBefore.exists
    /\ liveBefore.files # {}
    /\ website = liveBefore
    /\ tmp.exists

\* Every segment of the path s is present in c: each value on the way is a
\* mapping that holds the next segment as a key.
RECURSIVE PathPresent(_, _)
PathPresent(c, s) ==
    \/ s = <<>>
    \/ /\ c.kind = "map"
       /\ Head(s) \in DOMAIN c.map
       /\ PathPresent(c.map[Head(s)], Tail(s))

\* The value at the end of a path that is present.
RECURSIVE ValueAt(_, _)
ValueAt(c, s) == IF s = <<>> THEN c ELSE ValueAt(c.map[Head(s)], Tail(s))

\* C11: get_config_value returns the value reached by following the
\* segments of the dotted key in order, and '' when a segment is absent or
\* an intermediate value is not a mapping.
C11_ConfigLookup ==
    cpc = "done" =>
        value = IF PathPresent(config, Split(key))
                   THEN ValueAt(config, Split(key))
                   ELSE EmptyValue

\* C11 witness: a two-segment key was looked up whose first segment leads to
\* a string, not to a mapping.
C11_Witness ==
    /\ cpc = "done"
    /\ Len(Split(key)) = 2
    /\ config.kind = "map"
    /\ Split(key)[1] \in DOMAIN config.map
    /\ config.map[Split(key)[1]].kind = "str"
    /\ value = EmptyValue

\* The positions of a run from the removal of the live directory on
\* (lines 182-185).
SwapSteps == {"remove_live", "rename", "recopy", "remove_tmp"}

\* C12: every dispatch creates the empty next directory, copies the whole
\* staging tree into it, and only then makes sure that _website exists:
\* next is fully populated before any operation on the live directory.
C12_NextPopulatedBeforeLive ==
    /\ pc = "ensure_live" => websiteNew = NewBuild
    /\ pc \in {"create_next", "copy_next"} => website = liveBefore

\* C13: a run that is aborted or fails before the removal of _website
\* leaves the live location exactly as it was before the run, whether
\* _website existed or not: not modified and not created.
C13_LiveNeitherModifiedNorCreated ==
    (pc = "failed" /\ failedAt \in BeforeSwap) => website = liveBefore

\* The original reading of C14: at every position of dispatch, _website is
\* absent exactly between its removal and the rename.
C14_AbsentOnlyInWindow ==
    pc \in DispatchSteps => (~website.exists <=> pc = "rename")

\* C14: once dispatch has made sure that _website exists, _website is
\* absent in exactly one position, the one between its removal and the
\* rename; only the removal makes it absent, and the one step that runs in
\* that window is the rename, which puts the next directory in its place.
C14_SingleWindow ==
    /\ [](pc \in {"copy_next", "remove_live", "rename", "recopy", "remove_tmp"}
            => (~website.exists <=> pc = "rename"))
    /\ [][(website.exists /\ ~website'.exists)
            => (pc = "remove_live" /\ pc' = "rename")]_vars
    /\ [][(pc = "rename" /\ pc' \notin {"rename", "failed"})
            => (pc' = "recopy" /\ website' = websiteNew /\ website'.exists)]_vars

\* C14 witness: the live directory of an earlier build has been removed and
\* the rename is the next step.
C14_Witness ==
    /\ pc = "rename"
    /\ ~website.exists
    /\ liveBefore.exists
    /\ liveBefore.files # {}
    /\ websiteNew = NewBuild

\* C15: a failure at or after the removal of _website ends the build in an
\* outcome that differs from the outcome the same failure has before the
\* removal.
C15_SwapFailureIsDistinctAlarm ==
    (pc = "failed" /\ failedAt \in SwapSteps) =>
        \A q \in BeforeSwap : Outcome(failedAt, cause) # Outcome(q, cause)

\* C16: the staging directory of a run is in the project root for as long
\* as the run is running or has failed, it is removed only by the last step
\* of dispatch, when the new build is in place as _website, and it is gone
\* when a production build has returned.
C16_StagingOutlivesSwap ==
    /\ [](pc \in Running => (tmpName \in stagingDirs /\ tmp.exists))
    /\ []((pc = "failed" /\ failedAt \in Running) => tmpName \in stagingDirs)
    /\ [][~(stagingDirs \subseteq stagingDirs')
            => /\ pc = "remove_tmp"
               /\ stagingDirs' = stagingDirs \ {tmpName}
               /\ website = NewBuild
               /\ ~websiteNew.exists]_vars
    /\ []((pc = "done" /\ mode = "production")
            => (tmpName \notin stagingDirs /\ ~tmp.exists))

\* C16 witness: the new build is in place as _website, with a rendered
\* page in it, and the staging directory is still there.
C16_Witness ==
    /\ pc = "remove_tmp"
    /\ tmpName \in stagingDirs
    /\ tmp.exists
    /\ website = NewBuild
    /\ written # {}

\* The names that begin with an underscore, among the names a directory of
\* the project or of a staging tree can have.
BeginsWithUnderscore(d) ==
    d \in {"_templates", "_pages", "_static", "_website", "_website_new"}

\* An entry of a tree that is publishable output: not in a directory whose
\* name begins with '_', and not a file ending in .md or .markdown.
Publishable(f) == ~BeginsWithUnderscore(f.dir) /\ ~IsMarkdown(f.name)

\* C17: when _clean_tmp has completed, the staging directory holds no
\* directory whose name begins with '_' and no file ending in .md or
\* .markdown, and every other directory and file of staging is still there.
C17_CleanedStaging ==
    /\ [](pc = "mode" => /\ \A d \in tmp.dirs : ~BeginsWithUnderscore(d)
                         /\ \A f \in tmp.files : Publishable(f))
    /\ [][(pc = "clean" /\ pc' = "mode")
            => /\ tmp'.dirs = {d \in tmp.dirs : ~BeginsWithUnderscore(d)}
               /\ tmp'.files = {f \in tmp.files : Publishable(f)}]_vars

\* C17 witness: cleaning has completed on a staging tree that held the raw
\* copy of a page skipped for its template, and a rendered page is left.
C17_Witness ==
    /\ pc = "mode"
    /\ \E p \in Range(src.pages) : UnresolvablePage(p)
    /\ written # {}
    /\ \A n \in written : HasFile(tmp, "", HtmlPath(n))

\* The order of the stages of build (lines 46-72).
StageOrder ==
    { <<"templates", "images">>, <<"images", "images_copy">>,
      <<"images", "pages">>, <<"images_copy", "pages">>, <<"pages", "posts">>,
      <<"posts", "styles">>, <<"styles", "clean">>, <<"clean", "mode">>,
      <<"mode", "create_next">>, <<"mode", "done">> }

\* C18: the templates are in staging before the first page is rendered, the
\* stages follow each other in the order templates, images, pages, posts,
\* styles, cleaning, dispatch, and once dispatch has begun nothing is
\* written into staging: dispatch only removes it, as its last step.
C18_StagesOrdered ==
    /\ [](pc = "pages" => \A n \in TemplateFiles : HasFile(tmp, "_templates", n))
    /\ [][(pc \in Running \ DispatchSteps /\ pc' \notin {pc, "failed"})
            => <<pc, pc'>> \in StageOrder]_vars
    /\ [][(pc \in DispatchSteps /\ tmp' # tmp)
            => (pc = "remove_tmp" /\ ~tmp'.exists)]_vars

\* C18 witness: dispatch is about to begin on a staging tree that holds an
\* image, a rendered page and a style sheet.
C18_Witness ==
    /\ pc = "create_next"
    /\ written # {}
    /\ \E f \in tmp.files : f.dir = "images"
    /\ \E f \in tmp.files : f.dir = "styles"

\* C19: after the rename, and until build returns, _website holds exactly
\* the directories and files of the cleaned staging tree, whatever _website
\* held before; the re-copy of line 184 changes nothing.  When build has
\* returned, and until the sources are edited, every file of _website is
\* publishable output made from the current sources.
C19_LiveEqualsCleanedStaging ==
    /\ [](pc \in {"recopy", "remove_tmp"} => website = NewBuild)
    /\ [][(pc \in {"recopy", "remove_tmp"}) => (website' = website)]_vars
    /\ []((pc = "done" /\ mode = "production" /\ fresh) =>
            /\ website.exists
            /\ \A f \in website.files : Publishable(f) /\ f.data.rev = rev)

\* C19 witness: the build is in place and the live directory of the
\* previous build held a page that is no longer there.
C19_Witness ==
    /\ pc = "remove_tmp"
    /\ website = NewBuild
    /\ \E f \in liveBefore.files : ~HasFile(website, f.dir, f.name)
    /\ website.files # {}

\* C20: when the page stage starts, every name of the image mapping is the
\* name of a file in the images directory of staging.
C20_MappingBackedByStaging ==
    pc = "pages" => \A i \in images : HasFile(tmp, "images", i)
====
